---- MODULE Spec2Model ----
(***************************************************************************)
(* A model of the RustNetCourse chat/file-sharing client:                  *)
(*   - the JSON frame reader and writer of shared/src/communication/json.rs*)
(*     (specifications ReadSpec and WriteSpec, at the level of bytes);     *)
(*   - the command loop and the receive loop of client/src/lib.rs, running *)
(*     against the shared sharer registry (specification Spec).            *)
(* The registry, the capped reader and the chunked file sender live in     *)
(* files of the repository that are not part of the source tree at hand;   *)
(* they are modelled from the written specification (see MODEL_MAP.json).  *)
(***************************************************************************)
EXTENDS Integers, Sequences, FiniteSets, TLC

VARIABLES
    \* ---- frame reader (JsonReader over a CappedReader) ----
    net,        \* bytes the peer has sent that the reader has not yet taken
    buf,        \* the capped reader's buffer
    results,    \* what the successive read() calls returned
    fpc,        \* "reading" while the caller keeps calling read(), else "stopped"
    input,      \* everything the peer sends on this stream (never changes)
    \* ---- frame writer (JsonWriter over a TcpStream) ----
    sock,       \* bytes the socket has accepted so far
    wmsg,       \* the argument of the last write() call (a JSON value)
    wres,       \* what the last write() call returned
    nwrites,    \* number of write() calls so far
    \* ---- the client session (client/src/lib.rs) ----
    conn,       \* the command loop holds a writing connection (Some(..))
    cpc,        \* where the command loop is
    cmd,        \* the command being performed
    cid,        \* perform_upload_file's local id
    csize,      \* perform_upload_file's local size
    rpc,        \* where the receive loop is
    rmsg,       \* what the receive loop's last read_message returned
    pending,    \* registry: name -> Sharer prepared and not yet promoted
    byId,       \* registry: id -> promoted Sharer
    senders,    \* the chunked file senders that are running
    io,         \* what the last step wrote to the socket and printed
    ncmds,      \* number of commands read so far
    nmsgs       \* number of read_message calls so far

fvars == <<net, buf, results, fpc, input>>
wvars == <<sock, wmsg, wres, nwrites>>
svars == <<conn, cpc, cmd, cid, csize, rpc, rmsg, pending, byId, senders,
           io, ncmds, nmsgs>>
vars == <<fvars, wvars, svars>>

------------------------------------------------------------------------------
(* Bytes and JSON values.  The model's JSON values are the nested arrays   *)
(* [], [[]], [[[]]], ...; value n is the array nested n deep.  "x" stands  *)
(* for any byte that cannot start or continue a JSON value.                *)

LB == "["
RB == "]"
XB == "x"
Bytes == {LB, RB, XB}

MaxStream == 6      \* longest byte stream a peer sends to the reader
MaxDepth == 3       \* deepest value handed to the writer
MaxWrites == 2      \* write() calls in one run of WriteSpec

\* capacity of the capped reader's buffer
CAP == 4

Min(a, b) == IF a < b THEN a ELSE b

RECURSIVE Repeat(_, _)
Repeat(c, n) == IF n = 0 THEN <<>> ELSE <<c>> \o Repeat(c, n - 1)

\* Value::to_string(): the serialized bytes of value n
Serialize(n) == Repeat(LB, n) \o Repeat(RB, n)

\* serde_json's StreamDeserializer::next() run over the bytes b, byte by byte
\* from index i, d arrays deep, afterElem when an element of the innermost
\* array has just ended (only "]" may follow: the model has no ",").
RECURSIVE Scan(_, _, _, _)
Scan(b, i, d, afterElem) ==
    IF i > Len(b)
    THEN [st |-> IF d = 0 THEN "eof_start" ELSE "eof_mid", val |-> 0, used |-> Len(b)]
    ELSE IF d = 0
         THEN IF b[i] = LB
              THEN Scan(b, i + 1, 1, FALSE)
              ELSE [st |-> "syntax", val |-> 0, used |-> i]
         ELSE IF b[i] = RB
              THEN IF d = 1
                   THEN [st |-> "value", val |-> i \div 2, used |-> i]
                   ELSE Scan(b, i + 1, d - 1, TRUE)
              ELSE IF b[i] = LB /\ ~afterElem
                   THEN Scan(b, i + 1, d + 1, FALSE)
                   ELSE [st |-> "syntax", val |-> 0, used |-> i]

Parse(b) == Scan(b, 1, 0, FALSE)

------------------------------------------------------------------------------
(* The frame reader: JsonReader::read over the capped reader.              *)

Outcome(kind, v) == [r |-> kind, v |-> v]

\* The capped reader has no further byte to give: the peer has closed after
\* its last byte, or the buffer is full.
SourceEnded == net = <<>> \/ Len(buf) >= CAP

\* CappedReader::read: the parser has run out of buffered bytes and the
\* stream hands over the next n of them, never past the capacity.
CappedFill ==
    /\ fpc = "reading"
    /\ Parse(buf).st \in {"eof_start", "eof_mid"}
    /\ \E n \in 1..Min(Len(net), CAP - Len(buf)) :
          /\ buf' = buf \o SubSeq(net, 1, n)
          /\ net' = SubSeq(net, n + 1, Len(net))
    /\ UNCHANGED <<results, fpc, input, wvars, svars>>

\* CappedRead::clear, called after a successful parse: the whole buffer goes,
\* the bytes behind the parsed value included.
CappedClear(b) == <<>>

\* a parser that takes a truncated value for a whole one
ReadMatchLenient(p) ==
    IF p.st \in {"value", "eof_mid"} THEN "Ok"
    ELSE IF p.st = "syntax" THEN "Serde"
    ELSE "NothingToRead"

\* a match that reports the end of the stream as a malformed value
ReadMatchOneError(p) ==
    IF p.st = "value" THEN "Ok" ELSE "Serde"

\* the match on iterator.next(): Some(Ok), Some(Err(serde)), None
ReadMatch(p) ==
    IF p.st = "value" THEN "Ok"
    ELSE IF p.st \in {"syntax", "eof_mid"} THEN "Serde"
    ELSE "NothingToRead"

\* JsonReader::read returns: a value (and the buffer is cleared), or a failure,
\* after which the caller reads no more.
JsonRead ==
    /\ fpc = "reading"
    /\ LET p == Parse(buf)
           k == ReadMatch(p)
       IN /\ p.st \in {"value", "syntax"} \/ SourceEnded
          /\ results' = Append(results, Outcome(k, p.val))
          /\ buf' = IF k = "Ok" THEN CappedClear(buf) ELSE buf
          /\ fpc' = IF k = "Ok" THEN "reading" ELSE "stopped"
    /\ UNCHANGED <<net, input, wvars, svars>>

------------------------------------------------------------------------------
(* The frame writer: JsonWriter::write.                                    *)

\* TcpStream::write(bytes)? then flush()?: the socket takes the first n >= 1
\* bytes and says so (the count is dropped), or fails; then the flush succeeds
\* or fails.
JsonWrite ==
    /\ nwrites < MaxWrites
    /\ nwrites' = nwrites + 1
    /\ \E v \in 1..MaxDepth :
        LET bytes == Serialize(v) IN
          /\ wmsg' = v
          /\ \/ /\ wres' = "Err"              \* write(..)? fails
                /\ sock' = sock
             \/ \E n \in 1..Len(bytes), flushed \in BOOLEAN :
                /\ sock' = sock \o SubSeq(bytes, 1, n)
                /\ wres' = IF flushed THEN "Ok" ELSE "Err"
    /\ UNCHANGED <<fvars, svars>>

------------------------------------------------------------------------------
(* The sharer registry.                                                    *)

MaxId == 1          \* ids are 0..MaxId
MaxSize == 2        \* largest file size
MaxInputs == 5      \* commands and server messages read in one run

Ids == 0..MaxId
Names == {"a", "b"}
Paths == {"p"}
Sizes == 0..MaxSize
ChunkLens == 0..MaxSize

\* A Sharer.  mode is the way its file was opened: "r" by File::open (an
\* upload), "w" by File::create (a download).
Sharer(name, path, mode) ==
    [name |-> name, path |-> path, mode |-> mode, size |-> 0, received |-> 0]
NoSharer == Sharer("", "", "")

\* prepare(path, handle, name): fails when name is already pending
PrepareFails(pend, name) == pend[name] # NoSharer
Prepare(pend, path, mode, name) == [pend EXCEPT ![name] = Sharer(name, path, mode)]

\* promote(name, size, id): the pending Sharer moves under id, with its size;
\* nothing happens when none is pending under name
PromoteTable(pend, tab, name, size, id) ==
    IF pend[name] = NoSharer THEN tab
    ELSE [tab EXCEPT ![id] = [pend[name] EXCEPT !.size = size]]
PromotePending(pend, name) == [pend EXCEPT ![name] = NoSharer]

\* remove_by_id(id) and remove_unpromoted_by_name(name)
RemoveFrom(tab, key) == [tab EXCEPT ![key] = NoSharer]

\* free_id(): an id the id-keyed table does not hold now
FreeIds(tab) == {i \in Ids : tab[i] = NoSharer}

\* accept_chunk(data, id) on a download Sharer: received advances by the
\* length of data; done when received = size
Advance(s, len) == [s EXCEPT !.received = s.received + len]
Done(s) == s.received = s.size

------------------------------------------------------------------------------
(* Messages, console lines, and what one step reads, writes and prints.    *)

Msg(t, name, id, size) == [t |-> t, name |-> name, id |-> id, size |-> size]
NoMsg == Msg("", "", 0, 0)
Line(t, name, path) == [t |-> t, name |-> name, path |-> path]
NoLine == Line("", "", "")
NoCmd == [kind |-> "", name |-> "", path |-> ""]

\* what a remove_sharer(id) call returned: "some" Sharer or "none"
Took(id, res) == [id |-> id, res |-> res]
NoTake == Took(0, "")

\* io is the output of the last step: the message it wrote to the socket, the
\* line it printed (each possibly none), and what its remove_sharer call, if
\* it made one, returned.
Io(wrote, printed) == [wrote |-> wrote, printed |-> printed, took |-> NoTake]
Silent == Io(NoMsg, NoLine)

\* the handler has called remove_sharer(id) on the table tab, printed this,
\* and returns Ok(Proceed)
IoTake(printed, tab, id) ==
    [wrote |-> NoMsg, printed |-> printed,
     took |-> Took(id, IF tab[id] = NoSharer THEN "none" ELSE "some")]

fsvars == <<fvars, wvars>>

\* the sender that send_file_non_blocking starts for the Sharer s taken from
\* under id: it has the Sharer's file handle and size, and has sent nothing
NewSender(id, s) == [id |-> id, size |-> s.size, mode |-> s.mode, sent |-> 0]

------------------------------------------------------------------------------
(* The command loop: handle_user_commands.  Every command is read in state *)
(* "idle"; an Err that reaches the loop's `?` ends handle_user_commands    *)
(* ("failed"), and start()'s with_error_report prints it.                  *)

\* match_user_command_with_connection(..)? / handle_user_command(..)? with an
\* Err: the error leaves the loop
CmdFails(kind) ==
    /\ cpc' = "failed"
    /\ io' = Io(NoMsg, Line("Error", kind, ""))

\* write_message(m)?: the message is on the wire and the command is over, or
\* the write fails
CmdWrites(kind, m) ==
    \/ /\ cpc' = "idle"
       /\ io' = Io(m, NoLine)
    \/ CmdFails(kind)

ReadsCommand(kind, name, path) ==
    /\ cpc = "idle"
    /\ ncmds + nmsgs < MaxInputs
    /\ ncmds' = ncmds + 1
    /\ cmd' = [kind |-> kind, name |-> name, path |-> path]

\* Command::Connect: TcpStream::connect, build_connection, spawn the receive
\* loop.  (One connection per run: a second Connect is not modelled.)
CmdConnect ==
    /\ ReadsCommand("Connect", "", "")
    /\ ~conn
    /\ \/ /\ conn' = TRUE
          /\ rpc' = "read"
          /\ io' = Silent
          /\ cpc' = cpc
       \/ /\ CmdFails("Connect")
          /\ UNCHANGED <<conn, rpc>>
    /\ UNCHANGED <<cid, csize, rmsg, pending, byId, senders, nmsgs, fsvars>>

\* Command::Nothing, and a command match_user_command_with_connection does
\* not know: nothing happens
CmdNothing ==
    /\ \E kind \in {"Nothing", "Other"} :
          /\ ReadsCommand(kind, "", "")
          /\ kind = "Other" => conn
    /\ io' = Silent
    /\ UNCHANGED <<conn, cpc, cid, csize, rpc, rmsg, pending, byId, senders,
                   nmsgs, fsvars>>

\* any other command before a connection exists
CmdNotConnected ==
    /\ ~conn
    /\ \E kind \in {"Text", "Rename", "UploadFile", "DownloadFile", "Other"} :
          ReadsCommand(kind, "", "")
    /\ io' = Io(NoMsg, Line("EasyNow", "", ""))
    /\ UNCHANGED <<conn, cpc, cid, csize, rpc, rmsg, pending, byId, senders,
                   nmsgs, fsvars>>

\* perform_text and perform_rename
CmdText ==
    /\ conn
    /\ \E kind \in {"Text", "Rename"} :
          /\ ReadsCommand(kind, "", "")
          /\ CmdWrites(kind, Msg(kind, "", 0, 0))
    /\ UNCHANGED <<conn, cid, csize, rpc, rmsg, pending, byId, senders, nmsgs, fsvars>>

\* perform_upload_file, line by line: free_id
UploadFreeId ==
    /\ conn
    /\ \E name \in Names, path \in Paths : ReadsCommand("UploadFile", name, path)
    /\ \E id \in FreeIds(byId) : cid' = id
    /\ cpc' = "up_open"
    /\ io' = Silent
    /\ UNCHANGED <<conn, csize, rpc, rmsg, pending, byId, senders, nmsgs, fsvars>>

\* an upload that registers the Sharer under its name before it opens the file
UploadOpenRegistersFirst ==
    /\ cpc = "up_open"
    /\ pending' = Prepare(pending, cmd.path, "r", cmd.name)
    /\ \/ /\ \E size \in Sizes : csize' = size
          /\ cpc' = "up_prepare"
          /\ io' = Silent
       \/ /\ CmdFails("UploadFile")
          /\ csize' = csize
    /\ UNCHANGED <<conn, cmd, cid, rpc, rmsg, byId, senders, ncmds, nmsgs, fsvars>>

\* File::open(path)? and file.metadata()?.len()
UploadOpen ==
    /\ cpc = "up_open"
    /\ \/ /\ \E size \in Sizes : csize' = size
          /\ cpc' = "up_prepare"
          /\ io' = Silent
       \/ /\ CmdFails("UploadFile")
          /\ csize' = csize
    /\ UNCHANGED <<conn, cmd, cid, rpc, rmsg, pending, byId, senders, ncmds,
                   nmsgs, fsvars>>

\* prepare_sharer(path, file, name)?
UploadPrepare ==
    /\ cpc = "up_prepare"
    /\ IF PrepareFails(pending, cmd.name)
       THEN CmdFails("UploadFile") /\ pending' = pending
       ELSE /\ pending' = Prepare(pending, cmd.path, "r", cmd.name)
            /\ cpc' = "up_promote"
            /\ io' = Silent
    /\ UNCHANGED <<conn, cmd, cid, csize, rpc, rmsg, byId, senders, ncmds,
                   nmsgs, fsvars>>

\* promote_sharer(name, size, id)?
UploadPromote ==
    /\ cpc = "up_promote"
    /\ byId' = PromoteTable(pending, byId, cmd.name, csize, cid)
    /\ pending' = PromotePending(pending, cmd.name)
    /\ cpc' = "up_write"
    /\ io' = Silent
    /\ UNCHANGED <<conn, cmd, cid, csize, rpc, rmsg, senders, ncmds, nmsgs, fsvars>>

\* write_message(&request)?
UploadWrite ==
    /\ cpc = "up_write"
    /\ CmdWrites("UploadFile", Msg("RequestFileUpload", cmd.name, cid, csize))
    /\ UNCHANGED <<conn, cmd, cid, csize, rpc, rmsg, pending, byId, senders, ncmds,
                   nmsgs, fsvars>>

\* perform_download_file: prepare_sharer(path, File::create(path)?, name)?
DownloadPrepare ==
    /\ conn
    /\ \E name \in Names, path \in Paths : ReadsCommand("DownloadFile", name, path)
    /\ \/ /\ CmdFails("DownloadFile")       \* File::create fails
          /\ pending' = pending
       \/ IF PrepareFails(pending, cmd'.name)
          THEN CmdFails("DownloadFile") /\ pending' = pending
          ELSE /\ pending' = Prepare(pending, cmd'.path, "w", cmd'.name)
               /\ cpc' = "dl_write"
               /\ io' = Silent
    /\ UNCHANGED <<conn, cid, csize, rpc, rmsg, byId, senders, nmsgs, fsvars>>

\* write_message(&inner)?
DownloadWrite ==
    /\ cpc = "dl_write"
    /\ CmdWrites("DownloadFile", Msg("RequestFileDownload", cmd.name, 0, 0))
    /\ UNCHANGED <<conn, cmd, cid, csize, rpc, rmsg, pending, byId, senders, ncmds,
                   nmsgs, fsvars>>

\* Command::End: the loop breaks, and Leave is written when connected
CmdEnd ==
    /\ ReadsCommand("End", "", "")
    /\ IF conn
       THEN \/ /\ cpc' = "done"
               /\ io' = Io(Msg("Leave", "", 0, 0), NoLine)
            \/ CmdFails("End")
       ELSE /\ cpc' = "done"
            /\ io' = Silent
    /\ UNCHANGED <<conn, cid, csize, rpc, rmsg, pending, byId, senders, nmsgs, fsvars>>

CommandLoop ==
    \/ CmdConnect \/ CmdNothing \/ CmdNotConnected \/ CmdText
    \/ UploadFreeId \/ UploadOpen \/ UploadPrepare \/ UploadPromote \/ UploadWrite
    \/ DownloadPrepare \/ DownloadWrite \/ CmdEnd

------------------------------------------------------------------------------
(* The receive loop: handle_server_messages.  "read" is Running; "stopped" *)
(* is the loop left by break (Ok(())); "failed" is the loop left by an Err *)
(* that reached its `?`.                                                   *)

cmdvars == <<conn, cpc, cmd, cid, csize, ncmds>>

\* read_message() returns m.  rmsg keeps m while its handler is under way.
ReadsMessage(m) ==
    /\ rpc = "read"
    /\ ncmds + nmsgs < MaxInputs
    /\ nmsgs' = nmsgs + 1

\* a loop that reports the Err of a handler and goes on
RecvFailsAndGoesOn ==
    /\ rpc' = "read"
    /\ io' = Io(NoMsg, Line("Error", "receive", ""))

\* an Err out of handle_server_message: read_and_handle_server_message(..)?
\* returns it from the loop, and with_error_report prints it
RecvFails ==
    /\ rpc' = "failed"
    /\ io' = Io(NoMsg, Line("Error", "receive", ""))

\* the handler returns Ok(Proceed), having written and printed this
RecvProceeds(wrote, printed) ==
    /\ rpc' = "read"
    /\ io' = Io(wrote, printed)

\* a loop that prints the explanation and goes on to the next read
RecvReadErrorSkips ==
    /\ \E kind \in {"NothingToRead", "Serde", "MalformedMessage"} :
          /\ ReadsMessage(Msg("ReadError", kind, 0, 0))
          /\ io' = Io(NoMsg, Line("ServerError", kind, ""))
    /\ rpc' = "read"
    /\ UNCHANGED <<rmsg, pending, byId, senders, cmdvars, fsvars>>

\* read_message() fails: the explanation is printed and Stop is returned,
\* which breaks the loop
RecvReadError ==
    /\ \E kind \in {"NothingToRead", "Serde", "MalformedMessage"} :
          /\ ReadsMessage(Msg("ReadError", kind, 0, 0))
          /\ io' = Io(NoMsg, Line("ServerError", kind, ""))
    /\ rpc' = "stopped"
    /\ UNCHANGED <<rmsg, pending, byId, senders, cmdvars, fsvars>>

\* handle_server_chunk, first half: accept_chunk(data, id)?
ChunkOf(id, len) ==
    LET s == byId[id] IN
    /\ ReadsMessage(Msg("Chunk", "", id, len))
    /\ IF s = NoSharer
       THEN RecvProceeds(NoMsg, NoLine) /\ UNCHANGED <<byId, rmsg>>
       ELSE IF s.mode = "w"
       THEN \/ /\ byId' = [byId EXCEPT ![id] = Advance(s, len)]
               /\ IF Done(byId'[id])
                  THEN /\ rpc' = "chunk_done"
                       /\ rmsg' = Msg("Chunk", "", id, len)
                       /\ io' = Silent
                  ELSE RecvProceeds(NoMsg, NoLine) /\ rmsg' = rmsg
            \/ /\ RecvFails                  \* the write to the file fails
               /\ UNCHANGED <<byId, rmsg>>
       ELSE \* a chunk for a Sharer whose file is open for reading
            /\ RecvProceeds(NoMsg, NoLine) \/ RecvFails
            /\ UNCHANGED <<byId, rmsg>>
    /\ UNCHANGED <<pending, senders, cmdvars, fsvars>>

RecvChunk == \E id \in Ids, len \in ChunkLens : ChunkOf(id, len)

\* handle_server_chunk, second half (done): remove_sharer(id)?, and the
\* report when a Sharer was there
RecvChunkDone ==
    /\ rpc = "chunk_done"
    /\ byId' = RemoveFrom(byId, rmsg.id)
    /\ rpc' = "read"
    /\ io' = IoTake(IF byId[rmsg.id] = NoSharer THEN NoLine
                    ELSE Line("Downloaded", byId[rmsg.id].name, byId[rmsg.id].path),
                    byId, rmsg.id)
    /\ rmsg' = NoMsg
    /\ UNCHANGED <<nmsgs, pending, senders, cmdvars, fsvars>>

\* a handler that looks the Sharer up and leaves it in the table
AgreeUploadKeeps(id) ==
    /\ ReadsMessage(Msg("AgreeFileUpload", "", id, 0))
    /\ byId' = byId
    /\ senders' = IF byId[id] = NoSharer THEN senders
                  ELSE Append(senders, NewSender(id, byId[id]))
    /\ rpc' = "read"
    /\ io' = IoTake(NoLine, byId, id)
    /\ UNCHANGED <<rmsg, pending, cmdvars, fsvars>>

\* a handler that sends the whole file itself before it returns
AgreeUploadInline(id) ==
    /\ ReadsMessage(Msg("AgreeFileUpload", "", id, 0))
    /\ byId' = RemoveFrom(byId, id)
    /\ senders' = senders
    /\ rpc' = "read"
    /\ io' = [IoTake(NoLine, byId, id) EXCEPT
                !.wrote = IF byId[id] = NoSharer THEN NoMsg
                          ELSE Msg("Chunk", "", id, byId[id].size)]
    /\ UNCHANGED <<rmsg, pending, cmdvars, fsvars>>

\* handle_server_agree_file_upload: remove_sharer(id)?, then
\* send_file_non_blocking(connection, sharer)?
AgreeUploadOf(id) ==
    /\ ReadsMessage(Msg("AgreeFileUpload", "", id, 0))
    /\ byId' = RemoveFrom(byId, id)
    /\ senders' = IF byId[id] = NoSharer THEN senders
                  ELSE Append(senders, NewSender(id, byId[id]))
    /\ rpc' = "read"
    /\ io' = IoTake(NoLine, byId, id)
    /\ UNCHANGED <<rmsg, pending, cmdvars, fsvars>>

RecvAgreeUpload == \E id \in Ids : AgreeUploadOf(id)

\* handle_server_decline_file_upload
DeclineUploadOf(id) ==
    /\ ReadsMessage(Msg("DeclineFileUpload", "", id, 0))
    /\ byId' = RemoveFrom(byId, id)
    /\ rpc' = "read"
    /\ io' = IoTake(IF byId[id] = NoSharer THEN NoLine
                    ELSE Line("UploadDeclined", byId[id].name, ""),
                    byId, id)
    /\ UNCHANGED <<rmsg, pending, senders, cmdvars, fsvars>>

RecvDeclineUpload == \E id \in Ids : DeclineUploadOf(id)

\* a handler that promotes and sends no reply
AgreeDownloadSilent(name, size, id) ==
    /\ ReadsMessage(Msg("AgreeFileDownload", name, id, size))
    /\ byId' = PromoteTable(pending, byId, name, size, id)
    /\ pending' = PromotePending(pending, name)
    /\ RecvProceeds(NoMsg, NoLine)
    /\ UNCHANGED <<rmsg, senders, cmdvars, fsvars>>

\* handle_server_agree_file_download: promote_sharer(name, size, id)?, then
\* write_message(&response)?
AgreeDownloadOf(name, size, id) ==
    /\ ReadsMessage(Msg("AgreeFileDownload", name, id, size))
    /\ byId' = PromoteTable(pending, byId, name, size, id)
    /\ pending' = PromotePending(pending, name)
    /\ \/ RecvProceeds(Msg("AgreeFileDownload", "", id, 0), NoLine)
       \/ RecvFails
    /\ UNCHANGED <<rmsg, senders, cmdvars, fsvars>>

RecvAgreeDownload ==
    \E name \in Names, size \in Sizes, id \in Ids : AgreeDownloadOf(name, size, id)

\* a handler that reports the refusal and leaves the pending Sharer
DeclineDownloadKeeps(name) ==
    /\ ReadsMessage(Msg("DeclineFileDownload", name, 0, 0))
    /\ pending' = pending
    /\ RecvProceeds(NoMsg, Line("DownloadDeclined", name, ""))
    /\ UNCHANGED <<rmsg, byId, senders, cmdvars, fsvars>>

\* handle_server_decline_file_download
DeclineDownloadOf(name) ==
    /\ ReadsMessage(Msg("DeclineFileDownload", name, 0, 0))
    /\ pending' = RemoveFrom(pending, name)
    /\ RecvProceeds(NoMsg, Line("DownloadDeclined", name, ""))
    /\ UNCHANGED <<rmsg, byId, senders, cmdvars, fsvars>>

RecvDeclineDownload == \E name \in Names : DeclineDownloadOf(name)

\* any other server message: printed
RecvOther ==
    /\ ReadsMessage(Msg("Other", "", 0, 0))
    /\ RecvProceeds(NoMsg, Line("Server", "", ""))
    /\ UNCHANGED <<rmsg, pending, byId, senders, cmdvars, fsvars>>

ReceiveLoop ==
    \/ RecvReadError \/ RecvChunk \/ RecvChunkDone \/ RecvAgreeUpload
    \/ RecvDeclineUpload \/ RecvAgreeDownload \/ RecvDeclineDownload \/ RecvOther

------------------------------------------------------------------------------
(* The chunked file senders, one thread each.                              *)

Without(seq, i) == SubSeq(seq, 1, i - 1) \o SubSeq(seq, i + 1, Len(seq))

\* One sender reads the next piece of its file and writes it as a Chunk; at
\* the end of the file, or when a read or a write fails, the thread ends.
SenderStep ==
    /\ \E i \in 1..Len(senders) :
        LET t == senders[i] IN
        IF t.mode = "w"          \* a file from File::create cannot be read
        THEN /\ senders' = Without(senders, i)
             /\ io' = Io(NoMsg, Line("Error", "sender", ""))
        ELSE IF t.sent = t.size
        THEN /\ senders' = Without(senders, i)
             /\ io' = Silent
        ELSE \/ \E len \in 1..(t.size - t.sent) :
                  /\ senders' = [senders EXCEPT ![i].sent = t.sent + len]
                  /\ io' = Io(Msg("Chunk", "", t.id, len), NoLine)
             \/ /\ senders' = Without(senders, i)
                /\ io' = Io(NoMsg, Line("Error", "sender", ""))
    /\ UNCHANGED <<rpc, rmsg, nmsgs, pending, byId, cmdvars, fsvars>>

------------------------------------------------------------------------------
(* Specifications.                                                         *)

FrameIdle ==
    /\ net = <<>> /\ buf = <<>> /\ results = <<>> /\ fpc = "stopped" /\ input = <<>>
WriterIdle ==
    /\ sock = <<>> /\ wmsg = 0 /\ wres = "" /\ nwrites = MaxWrites
SessionIdle ==
    /\ conn = FALSE /\ cpc = "done" /\ cmd = NoCmd /\ cid = 0 /\ csize = 0
    /\ rpc = "off" /\ rmsg = NoMsg
    /\ pending = [n \in Names |-> NoSharer] /\ byId = [i \in Ids |-> NoSharer]
    /\ senders = <<>> /\ io = Silent
    /\ ncmds = 0 /\ nmsgs = 0

\* the session: nothing is connected, the command loop waits for a command
Init ==
    /\ FrameIdle /\ WriterIdle
    /\ conn = FALSE /\ cpc = "idle" /\ cmd = NoCmd /\ cid = 0 /\ csize = 0
    /\ rpc = "off" /\ rmsg = NoMsg
    /\ pending = [n \in Names |-> NoSharer] /\ byId = [i \in Ids |-> NoSharer]
    /\ senders = <<>> /\ io = Silent
    /\ ncmds = 0 /\ nmsgs = 0

Next == CommandLoop \/ ReceiveLoop \/ SenderStep

Spec == Init /\ [][Next]_vars

RECURSIVE SeqsUpTo(_, _)
SeqsUpTo(S, n) ==
    IF n = 0 THEN {<<>>}
    ELSE LET shorter == SeqsUpTo(S, n - 1)
         IN shorter \cup {Append(q, c) : q \in shorter, c \in S}

\* the frame reader on every byte stream of up to MaxStream bytes
ReadInit ==
    /\ input \in SeqsUpTo(Bytes, MaxStream)
    /\ net = input /\ buf = <<>> /\ results = <<>> /\ fpc = "reading"
    /\ WriterIdle /\ SessionIdle

ReadNext == CappedFill \/ JsonRead

ReadSpec == ReadInit /\ [][ReadNext]_vars

\* the frame writer
WriteInit ==
    /\ sock = <<>> /\ wmsg = 0 /\ wres = "" /\ nwrites = 0
    /\ FrameIdle /\ SessionIdle

WriteNext == JsonWrite

WriteSpec == WriteInit /\ [][WriteNext]_vars

------------------------------------------------------------------------------
(* Properties.                                                             *)

\* C1: an id returned by free_id is not bound to a Sharer by anyone else
\* between its allocation and its promotion in perform_upload_file, whatever
\* the receive loop does meanwhile.
C1_AllocatedIdStaysFree ==
    cpc \in {"up_open", "up_prepare", "up_promote"} => byId[cid] = NoSharer

\* C2: when accept_chunk has returned done at the chunk that delivered the
\* Nth byte of a download of size N, the Sharer the receive loop goes on to
\* remove and report is that download, with all N bytes received.
C2_DoneRemovesTheDownload ==
    (rpc = "chunk_done" /\ rmsg.size >= 1) =>
        /\ byId[rmsg.id] # NoSharer
        /\ byId[rmsg.id].mode = "w"
        /\ byId[rmsg.id].received = byId[rmsg.id].size

\* C3: a live download Sharer never has received more bytes than its size.
C3_ReceivedWithinSize ==
    \A i \in Ids : byId[i].mode = "w" => byId[i].received <= byId[i].size

\* the streams that are k complete values back to back, each within CAP
ValueSeqs == SeqsUpTo(1..(CAP \div 2), MaxStream \div 2)
RECURSIVE Flatten(_)
Flatten(vs) == IF vs = <<>> THEN <<>> ELSE Serialize(Head(vs)) \o Flatten(Tail(vs))
RECURSIVE OkValues(_)
OkValues(rs) ==
    IF rs = <<>> THEN <<>>
    ELSE (IF Head(rs).r = "Ok" THEN <<Head(rs).v>> ELSE <<>>) \o OkValues(Tail(rs))

\* C4: when the stream is k complete JSON values back to back, the reader has
\* returned exactly those k values, in order, by the time it stops at the end
\* of the stream, however the stream was split across the reads.
C4_Framing ==
    \A vs \in ValueSeqs :
        (input = Flatten(vs) /\ fpc = "stopped") => OkValues(results) = vs

C6_NoPartialWriteSuccess ==
    [][(nwrites' = nwrites + 1 /\ wres' = "Ok")
        => sock' = sock \o Serialize(wmsg')]_wvars

\* C7: an error in one command does not end the command loop.
C7_CommandErrorIsLocal == cpc # "failed"

\* C8: a failed read_message stops the receive loop, and a stopped loop stays
\* stopped and calls read_message no more.
C8_StoppedForGood ==
    [][/\ io'.printed.t = "ServerError" => rpc' = "stopped"
       /\ rpc = "stopped" => (rpc' = "stopped" /\ nmsgs' = nmsgs)]_vars

\* C8, reached: the loop has stopped and the session has gone on writing
C8_StoppedAndOthersGoOn == rpc = "stopped" /\ io.wrote # NoMsg

Running == rpc \in {"read", "chunk_done"}

\* C9 as stated: the receive loop leaves Running only in a step that reports
\* a failed read.
C9_OnlyReadErrorsEndTheLoop ==
    [][(Running /\ ~Running') => io'.printed.t = "ServerError"]_vars

\* C9 amended: the loop leaves Running by a failed read (stopped) or by an Err
\* out of the dispatch (failed), and by nothing else; a dispatch that returns
\* Ok leaves it Running.
C9_LoopEndsByReadOrDispatchError ==
    [][/\ (Running /\ ~Running') =>
            \/ rpc' = "stopped" /\ io'.printed.t = "ServerError"
            \/ rpc' = "failed" /\ io'.printed = Line("Error", "receive", "")
       /\ io'.printed = Line("Error", "receive", "") => rpc' = "failed"
       /\ (nmsgs' = nmsgs + 1 /\ io'.printed.t \notin {"ServerError", "Error"})
            => Running']_vars

\* C9, reached: the loop was ended by an Err out of the dispatch
C9_DispatchErrorEndedLoop == rpc = "failed"

\* the step leaves the registry alone, writes nothing, raises nothing, and
\* the receive loop is Running after it
IsNoOp ==
    /\ UNCHANGED <<pending, byId, senders>>
    /\ io'.wrote = NoMsg
    /\ io'.printed.t # "Error"
    /\ rpc' = "read"

\* C10: a Chunk, AgreeFileUpload, DeclineFileUpload, AgreeFileDownload or
\* DeclineFileDownload that names an id or a name with no registered Sharer
\* is a no-op.
C10_UnknownReferenceIsNoOp ==
    [][/\ \A id \in Ids :
            byId[id] = NoSharer =>
                /\ (\E len \in ChunkLens : ChunkOf(id, len)) => IsNoOp
                /\ AgreeUploadOf(id) => IsNoOp
                /\ DeclineUploadOf(id) => IsNoOp
       /\ \A name \in Names :
            pending[name] = NoSharer =>
                /\ (\E size \in Sizes, id \in Ids : AgreeDownloadOf(name, size, id))
                      => IsNoOp
                /\ DeclineDownloadOf(name) => IsNoOp]_vars

C12_AgreedUploadIsStreamed ==
    [][\A id \in Ids :
        (/\ io.wrote.t = "RequestFileUpload" /\ io.wrote.id = id
         /\ AgreeUploadOf(id) /\ byId[id] # NoSharer)
            => /\ byId[id].mode = "r" /\ byId[id].name = io.wrote.name
               /\ byId'[id] = NoSharer
               /\ senders' = Append(senders, NewSender(id, byId[id]))]_vars

\* C13: once the server's AgreeFileDownload has promoted a download to an id,
\* that Sharer stays registered under the id, with the bytes received so far,
\* until the receive loop completes it: no step of the command thread or of a
\* sender changes or replaces it.
C13_DownloadStaysUntilComplete ==
    [][\A id \in Ids :
        (byId[id].mode = "w" /\ nmsgs' = nmsgs /\ rpc # "chunk_done")
            => byId'[id] = byId[id]]_vars

\* the step puts a Sharer under id that was not there (more bytes received by
\* the one that is there do not count)
Registers(id) ==
    /\ byId'[id] # NoSharer
    /\ [byId'[id] EXCEPT !.received = 0] # [byId[id] EXCEPT !.received = 0]

\* C14: handling DeclineFileDownload{name} removes the Sharer pending under
\* name, prints the refusal, creates no id-keyed entry and leaves the loop
\* Running; and an id-keyed entry only ever comes from a Sharer that is
\* pending at that moment, so the declined transfer gets none later.
C14_DeclinedDownloadIsDropped ==
    [][/\ \A name \in Names :
            DeclineDownloadOf(name)
                => /\ pending'[name] = NoSharer
                   /\ io'.printed = Line("DownloadDeclined", name, "")
                   /\ byId' = byId
                   /\ rpc' = "read"
       /\ \A id \in Ids :
            Registers(id)
                => \E n \in Names :
                      /\ pending[n] # NoSharer /\ pending'[n] = NoSharer
                      /\ byId'[id].name = n /\ byId'[id].mode = pending[n].mode]_vars

\* C14, reached: the one download requested so far has been declined, its
\* Sharer is pending no more and nothing is registered under any id
C14_Declined ==
    /\ ncmds = 2 /\ nmsgs = 1 /\ cmd.kind = "DownloadFile" /\ cpc = "idle"
    /\ io.printed = Line("DownloadDeclined", cmd.name, "")
    /\ pending[cmd.name] = NoSharer
    /\ \A id \in Ids : byId[id] = NoSharer

\* C15: when File::open (upload) or File::create (download) fails, the
\* command ends with the error reported, having written no message and
\* registered no Sharer: the failing step and the step of the command before
\* it leave the registry alone and write nothing, and the command thread
\* takes no step afterwards.
C15_ResourceErrorLeavesNothing ==
    [][/\ (cpc = "idle" /\ cpc' = "up_open")
            => (io'.wrote = NoMsg /\ UNCHANGED <<pending, byId>>)
       /\ (cpc = "up_open" /\ cpc' = "failed")
            => /\ io' = Io(NoMsg, Line("Error", "UploadFile", ""))
               /\ UNCHANGED <<pending, byId>>
       /\ (cpc = "idle" /\ cpc' = "failed" /\ cmd'.kind = "DownloadFile")
            => /\ io' = Io(NoMsg, Line("Error", "DownloadFile", ""))
               /\ UNCHANGED <<pending, byId>>
       /\ cpc = "failed" => UNCHANGED cmdvars]_vars

\* C15, reached: the first upload of the session has failed at File::open
\* (nothing was registered, and no server message has been handled that
\* could have removed it)
C15_OpenFailed ==
    /\ cpc = "failed" /\ cmd.kind = "UploadFile" /\ ncmds = 2 /\ nmsgs = 0
    /\ io = Io(NoMsg, Line("Error", "UploadFile", ""))
    /\ \A n \in Names : pending[n] = NoSharer
    /\ \A id \in Ids : byId[id] = NoSharer

\* a step of the receive loop (or the Connect that starts it)
ReceiveStep == nmsgs' # nmsgs \/ rpc' # rpc

\* C16 as stated: no step of the receive loop writes a message to the socket.
C16_ReceiveLoopNeverWrites ==
    [][ReceiveStep => io'.wrote = NoMsg]_vars

\* C16 amended: the receive loop writes one message only, the
\* AgreeFileDownload{id} reply, in the handler of the server's
\* AgreeFileDownload (whenever that handler returns Ok); no other step of the
\* receive loop writes.
C16_ReceiveLoopWritesOnlyTheReply ==
    [][/\ ReceiveStep =>
            \/ io'.wrote = NoMsg
            \/ \E name \in Names, size \in Sizes, id \in Ids :
                  /\ AgreeDownloadOf(name, size, id)
                  /\ io'.wrote = Msg("AgreeFileDownload", "", id, 0)
       /\ \A name \in Names, size \in Sizes, id \in Ids :
            (AgreeDownloadOf(name, size, id) /\ rpc' = "read")
                => io'.wrote = Msg("AgreeFileDownload", "", id, 0)]_vars

\* C16, reached: the receive loop has just written its reply for a download
\* it promoted
C16_ReplyWritten ==
    /\ io.wrote.t = "AgreeFileDownload"
    /\ byId[io.wrote.id].mode = "w"

C18_EndOfStreamIsNotAParseError ==
    [][Len(results') = Len(results) + 1 =>
          LET r == results'[Len(results')].r IN
          /\ r = "NothingToRead" <=> (buf = <<>> /\ net = <<>>)
          /\ r = "Serde" <=> Parse(buf).st \in {"syntax", "eof_mid"}
          /\ (r = "Serde" /\ Parse(buf).st = "syntax") => buf # <<>>]_fvars

\* C18, reached: a stream of one value has been read to its end: the value,
\* then NothingToRead
C18_EndOfStreamSeen ==
    /\ fpc = "stopped" /\ Len(results) = 2
    /\ results[1].r = "Ok" /\ input = Serialize(results[1].v)
    /\ results[2].r = "NothingToRead"

\* C19: at the moment the upload command puts RequestFileUpload{name,size,id}
\* on the wire, the Sharer registered under id is that upload's, and at the
\* moment the download command puts RequestFileDownload{name} on the wire the
\* Sharer pending under name is that download's, so that the server's answer
\* finds it.
C19_RegisteredWhenRequested ==
    [][/\ (cpc = "up_write" /\ io'.wrote.t = "RequestFileUpload"
            /\ byId[io'.wrote.id] # NoSharer)
            => /\ byId[io'.wrote.id].mode = "r"
               /\ byId[io'.wrote.id].name = io'.wrote.name
       /\ (cpc = "dl_write" /\ io'.wrote.t = "RequestFileDownload"
            /\ pending[io'.wrote.name] # NoSharer)
            => pending[io'.wrote.name].mode = "w"]_vars

\* C20: while a sender is still emitting the chunks of an upload under an id,
\* free_id gives that id to no new upload command, and no Sharer is promoted
\* to it.
C20_StreamedIdIsNotReused ==
    [][\A i \in 1..Len(senders) :
        (senders[i].mode = "r" /\ senders[i].sent < senders[i].size)
            => /\ (cpc = "idle" /\ cpc' = "up_open") => cid' # senders[i].id
               /\ ~Registers(senders[i].id)]_vars

====
